---- MODULE Spec2Model ----
(***************************************************************************)
(* A model of inline_kf_script.py (price-hound): the single-run pipeline   *)
(* that locates the retailer's manifest, parses the manifest's file names, *)
(* loads one store's CSV, tidies it and writes output/index.html.          *)
(*                                                                         *)
(* Text is modelled as a sequence of one-character strings, so that the    *)
(* string operations of the script (strip, removesuffix, replace, split,   *)
(* count) are computed character by character as Python computes them.     *)
(* A missing value (pd.NA / NaN / None) is the record NA; a present value  *)
(* v is Some(v).                                                           *)
(***************************************************************************)
EXTENDS Integers, Sequences, FiniteSets, TLC

VARIABLES
    pc,        \* position of the run (of the function under test in the unit specifications)
    label,     \* a manifest label handed to normalize_filename_txt_kf
    parts,     \* the token list normalize_filename_txt_kf returned
    meta,      \* what filename_structure_match_kf returned or raised
    s,         \* an anchor_price_date cell handed to prepare_anchor
    split,     \* the pair prepare_anchor returned: date_to_parse, price_to_parse
    stripped,  \* price_to_parse after the two .str.removesuffix calls
    cleaned,   \* ... and after .map(replace_with_dot_if_number)
    warnings,  \* the messages given to logging.warning, in order
    df_in,     \* the table handed to tidy (after the renaming of its columns)
    df,        \* what tidy returned or raised
    TODAY,          \* pd.Timestamp.today().normalize() of the run
    gets,           \* the HTTP GETs made so far: which call, its status, the URL of the manifest GET
    dynamic_number, \* the global set from find_assetlist_url_static's result
    csv_links,      \* response.json() of the manifest
    df_url,         \* the manifest table fetch_stores_dates returned
    url_filtered,   \* the selection for TODAY and the store, squeezed
    csv_log,        \* the pd.read_csv calls of read_csv_kf: encoding and result
    csv_ret,        \* what read_csv_kf returned or raised
    error,          \* the exception that ended the run
    output_written  \* whether output/index.html was written

filenameVars == <<label, parts, meta>>
anchorVars == <<s, split, stripped, cleaned>>
tidyVars == <<df_in, df>>
mainVars == <<TODAY, gets, dynamic_number, csv_links, df_url,
              url_filtered, csv_log, csv_ret, error, output_written>>
mainVars_but_error == <<TODAY, gets, dynamic_number, csv_links, df_url,
                        url_filtered, csv_log, csv_ret, output_written>>
vars == <<pc, filenameVars, anchorVars, warnings, tidyVars, mainVars>>

--------------------------------------------------------------------------
(* Missing values and results *)

NA == [isna |-> TRUE]
Some(v) == [isna |-> FALSE, val |-> v]

\* A call that returned v, and a call that raised the exception e.
Returned(v) == [ok |-> TRUE, val |-> v]
Raised(e) == [ok |-> FALSE, exc |-> e]

None == [tag |-> "None"]

\* the variables of the stages a specification does not exercise
FilenameIdle == label = <<>> /\ parts = <<>> /\ meta = None

AnchorIdle == s = NA /\ split = None /\ stripped = None /\ cleaned = None

TidyIdle == df_in = None /\ df = None

\* a name that has not been assigned yet
Unset == [tag |-> "unset"]

MainIdle ==
    /\ TODAY = Unset /\ gets = <<>> /\ dynamic_number = Unset
    /\ csv_links = Unset /\ df_url = Unset /\ url_filtered = Unset
    /\ csv_log = <<>> /\ csv_ret = Unset /\ error = None /\ output_written = FALSE

--------------------------------------------------------------------------
(* Python's str operations, on sequences of characters *)

IsSpace(c) == c = " "

\* the least and the greatest member of a set of indices, 0 for the empty set
Min0(S) == IF S = {} THEN 0 ELSE CHOOSE i \in S : \A j \in S : i <= j
Max0(S) == IF S = {} THEN 0 ELSE CHOOSE i \in S : \A j \in S : i >= j

StartsWith(x, p) == Len(x) >= Len(p) /\ SubSeq(x, 1, Len(p)) = p

EndsWith(x, p) == Len(x) >= Len(p) /\ SubSeq(x, Len(x) - Len(p) + 1, Len(x)) = p

Drop(x, n) == SubSeq(x, n + 1, Len(x))

\* str.removesuffix(p)
RemoveSuffix(x, p) ==
    IF Len(p) > 0 /\ EndsWith(x, p) THEN SubSeq(x, 1, Len(x) - Len(p)) ELSE x

\* str.removeprefix(p)
RemovePrefix(x, p) ==
    IF Len(p) > 0 /\ StartsWith(x, p) THEN Drop(x, Len(p)) ELSE x

\* x[a..b], the empty text when a is 0
Cut(x, a, b) == IF a = 0 THEN <<>> ELSE SubSeq(x, a, b)

\* str.strip(): from the first to the last character that is not whitespace
Strip(x) ==
    Cut(x, Min0({ i \in 1..Len(x) : ~IsSpace(x[i]) }), Max0({ i \in 1..Len(x) : ~IsSpace(x[i]) }))

\* str.find(p) + 1: where the first occurrence of p in x starts, 0 if none
FindSub(x, p) ==
    Min0({ i \in 1..Len(x) : i + Len(p) - 1 <= Len(x) /\ SubSeq(x, i, i + Len(p) - 1) = p })

\* str.replace(old, new): every non-overlapping occurrence, left to right;
\* ReplaceFrom replaces the first occurrence, which starts at i, and goes on
RECURSIVE Replace(_, _, _)
ReplaceFrom(x, old, new, i) ==
    IF i = 0 THEN x
    ELSE SubSeq(x, 1, i - 1) \o new \o Replace(Drop(x, i - 1 + Len(old)), old, new)
Replace(x, old, new) == ReplaceFrom(x, old, new, FindSub(x, old))

\* str.count(c) for a one-character c
Count(x, c) == Cardinality({ i \in 1..Len(x) : x[i] = c })

\* the index of the first c in x, 0 when there is none
Find(x, c) == Min0({ i \in 1..Len(x) : x[i] = c })

\* x from its index k on, the empty text when k is 0
From(x, k) == IF k = 0 THEN <<>> ELSE Drop(x, k - 1)

\* x without its leading run of c
SkipRun(x, c) == From(x, Min0({ i \in 1..Len(x) : x[i] # c }))

\* re.split(r'_+', x): the texts between the runs of underscores; a run at
\* either end leaves an empty text there. SplitFrom splits at the first
\* underscore, which is at i, and goes on after its run.
RECURSIVE SplitUnderscores(_)
SplitFrom(x, i) ==
    IF i = 0 THEN <<x>>
    ELSE <<SubSeq(x, 1, i - 1)>> \o SplitUnderscores(SkipRun(Drop(x, i - 1), "_"))
SplitUnderscores(x) == SplitFrom(x, Find(x, "_"))

\* sep.join(toks)
RECURSIVE Join(_, _)
Join(toks, sep) ==
    IF toks = <<>> THEN <<>>
    ELSE IF Len(toks) = 1 THEN toks[1]
    ELSE toks[1] \o sep \o Join(Tail(toks), sep)

\* the concatenation of a sequence of texts
Concat(toks) == Join(toks, <<>>)

--------------------------------------------------------------------------
(* normalize_filename_txt_kf and filename_structure_match_kf *)

DotCsv == <<".", "c", "s", "v">>
Dugo_Selo == <<"D", "u", "g", "o", "_", "S", "e", "l", "o">>
Slavonski_Brod == <<"S", "l", "a", "v", "o", "n", "s", "k", "i", "_", "B", "r", "o", "d">>
Velika_Gorica == <<"V", "e", "l", "i", "k", "a", "_", "G", "o", "r", "i", "c", "a">>
Nova_Gradiska == <<"N", "o", "v", "a", "_", "G", "r", "a", "d", "i", "s", "k", "a">>
Zagreb_Blato == <<"Z", "a", "g", "r", "e", "b", "_", "B", "l", "a", "t", "o">>

\* the replacement of a multi-word city name: its underscore becomes a space
Spaced(city) == [i \in 1..Len(city) |-> IF city[i] = "_" THEN " " ELSE city[i]]

\* the dict `replacements`, in its insertion order
replacements ==
    << <<Dugo_Selo, Spaced(Dugo_Selo)>>,
       <<Slavonski_Brod, Spaced(Slavonski_Brod)>>,
       <<Velika_Gorica, Spaced(Velika_Gorica)>>,
       <<Nova_Gradiska, Spaced(Nova_Gradiska)>>,
       <<Zagreb_Blato, Spaced(Zagreb_Blato)>> >>

\* the loop `for old, new in replacements.items(): x = x.replace(old, new)`
RECURSIVE ApplyReplacements(_, _)
ApplyReplacements(x, reps) ==
    IF reps = <<>> THEN x
    ELSE ApplyReplacements(Replace(x, reps[1][1], reps[1][2]), Tail(reps))

normalize_filename_txt_kf(x) ==
    SplitUnderscores(ApplyReplacements(Strip(RemoveSuffix(x, DotCsv)), replacements))

\* A faulty variant: the address is taken up to but not including the last token
\* before the city, as an off-by-one slice parts[1:-5] would.
filename_structure_match_kf_short(parts_) ==
    LET n == Len(parts_) IN
    IF n >= 5
    THEN Returned([store_size |-> parts_[1],
                   address |-> Join(SubSeq(parts_, 2, n - 5), <<" ">>),
                   city |-> parts_[n - 3],
                   store_id |-> parts_[n - 2],
                   date |-> parts_[n - 1],
                   time |-> parts_[n]])
    ELSE Raised([type |-> "ValueError", parts |-> parts_])

\* match parts: case [hiper_or_super, *address_parts, city, some_number, date, time]
\* matches every list of five or more items; case _ raises.
filename_structure_match_kf(parts_) ==
    LET n == Len(parts_) IN
    IF n >= 5
    THEN Returned([store_size |-> parts_[1],
                   address |-> Join(SubSeq(parts_, 2, n - 4), <<" ">>),
                   city |-> parts_[n - 3],
                   store_id |-> parts_[n - 2],
                   date |-> parts_[n - 1],
                   time |-> parts_[n]])
    ELSE Raised([type |-> "ValueError", parts |-> parts_])

--------------------------------------------------------------------------
(* prepare_anchor, the currency-marker cleanup and replace_with_dot_if_number *)

\* the character U+20AC (the euro sign), spelled in ASCII
EuroSign == "U+20AC"

Euro == <<EuroSign>>
EuroUr == <<EuroSign, "u", "r">>

\* the pair for a text with an '=' at i: the stripped halves, no warning
SplitAt(x, i) ==
    [date |-> Some(Strip(SubSeq(x, 1, i - 1))),
     price |-> Some(Strip(Drop(x, i))),
     warning |-> <<>>]

Refused(message) == [date |-> NA, price |-> NA, warning |-> message]

\* A faulty variant: only a missing '=' is refused, as `s.count('=') < 1` would.
prepare_anchor_lax(x) ==
    IF x.isna THEN Refused(<<"Encountered missing value">>)
    ELSE IF Count(x.val, "=") < 1 THEN Refused(<<"No or multiple '=' found in", x.val>>)
    ELSE SplitAt(x.val, Find(x.val, "="))

\* prepare_anchor(s): the pair it returns and the warning it logs (<<>>: none)
prepare_anchor(x) ==
    IF x.isna THEN Refused(<<"Encountered missing value">>)
    ELSE IF Count(x.val, "=") # 1 THEN Refused(<<"No or multiple '=' found in", x.val>>)
    ELSE SplitAt(x.val, Find(x.val, "="))

\* .str.removesuffix(euro).str.removesuffix(euro + "ur") on one cell; a
\* missing cell stays missing under the methods of Series.str
strip_currency(x) ==
    IF x.isna THEN NA ELSE Some(RemoveSuffix(RemoveSuffix(x.val, Euro), EuroUr))

CommaToDot(x) == [i \in 1..Len(x) |-> IF x[i] = "," THEN "." ELSE x[i]]

\* replace_with_dot_if_number on a cell that is missing or text (the cells of
\* price_to_parse are never numbers: prepare_anchor returns text or pd.NA)
replace_with_dot_if_number(x) ==
    IF x.isna THEN NA
    ELSE IF Len(x.val) = 0 THEN NA
    ELSE Some(CommaToDot(x.val))

--------------------------------------------------------------------------
(* Numbers, dates and the parsers of pandas that tidy uses *)

Digits == <<"0", "1", "2", "3", "4", "5", "6", "7", "8", "9">>

IsDigit(c) == \E i \in 1..10 : Digits[i] = c

DigitVal(c) == (CHOOSE i \in 1..10 : Digits[i] = c) - 1

AllDigits(x) == \A i \in 1..Len(x) : IsDigit(x[i])

RECURSIVE IntVal(_)
IntVal(x) == IF x = <<>> THEN 0 ELSE 10 * IntVal(SubSeq(x, 1, Len(x) - 1)) + DigitVal(x[Len(x)])

RECURSIVE Pow10(_)
Pow10(k) == IF k = 0 THEN 1 ELSE 10 * Pow10(k - 1)

Abs(i) == IF i < 0 THEN -i ELSE i

RECURSIVE Gcd(_, _)
Gcd(a, b) == IF b = 0 THEN a ELSE Gcd(b, a % b)

\* A finite number n/d in lowest terms, d > 0; the two infinities of float64.
\* float64's NaN is a missing value to pandas and is NA here.
Num(n, d) ==
    LET g == Gcd(Abs(n), Abs(d))
        sgn == IF d < 0 THEN -1 ELSE 1
    IN [kind |-> "finite", n |-> sgn * (n \div g), d |-> sgn * (d \div g)]

PosInf == [kind |-> "inf"]
NegInf == [kind |-> "-inf"]

\* float64 subtraction and division of two cells (finite operands)
FloatSub(a, b) ==
    IF a.isna \/ b.isna THEN NA
    ELSE Some(Num(a.val.n * b.val.d - b.val.n * a.val.d, a.val.d * b.val.d))

\* x / 0.0 is inf or -inf by the sign of x, and 0.0 / 0.0 is NaN
FloatDiv(a, b) ==
    IF a.isna \/ b.isna THEN NA
    ELSE IF b.val.n = 0
    THEN (IF a.val.n > 0 THEN Some(PosInf) ELSE IF a.val.n < 0 THEN Some(NegInf) ELSE NA)
    ELSE Some(Num(a.val.n * b.val.d, a.val.d * b.val.n))

\* The text-to-number conversion of pd.to_numeric on one text: whitespace
\* around, an optional minus sign, digits with at most one decimal point.
\* Returned(number), or a raised ValueError for any other text.
ParseDigits(sign, int, frac) ==
    IF AllDigits(int) /\ AllDigits(frac) /\ Len(int) + Len(frac) >= 1
    THEN Returned(Num(sign * (IntVal(int) * Pow10(Len(frac)) + IntVal(frac)), Pow10(Len(frac))))
    ELSE Raised([type |-> "ValueError"])

ParseUnsigned(sign, body, i) ==
    IF i = 0 THEN ParseDigits(sign, body, <<>>)
    ELSE ParseDigits(sign, SubSeq(body, 1, i - 1), Drop(body, i))

ParseSigned(t) ==
    IF t # <<>> /\ Head(t) = "-"
    THEN ParseUnsigned(-1, Tail(t), Find(Tail(t), "."))
    ELSE ParseUnsigned(1, t, Find(t, "."))

ParseNumber(x) == ParseSigned(Strip(x))

\* pd.to_numeric on one cell of an object column; a missing cell converts to NaN
Wrapped(r) == IF r.ok THEN Returned(Some(r.val)) ELSE r

to_numeric(x) == IF x.isna THEN Returned(NA) ELSE Wrapped(ParseNumber(x.val))

\* pd.to_numeric(errors="coerce") on one cell
Coerced(r) == IF r.ok THEN r.val ELSE NA

to_numeric_coerce(x) == Coerced(to_numeric(x))

IsLeap(y) == (y % 4 = 0 /\ y % 100 # 0) \/ y % 400 = 0

DaysInMonth(y, m) ==
    IF m = 2 THEN (IF IsLeap(y) THEN 29 ELSE 28)
    ELSE IF m \in {4, 6, 9, 11} THEN 30 ELSE 31

\* pd.to_datetime(format="mixed", dayfirst=True, errors="coerce") on one cell,
\* for the texts of the tables below: DD.MM.YYYY is a date, a text with
\* letters or an empty text is not (NaT)
to_datetime_dayfirst(x) ==
    IF x.isna THEN NA
    ELSE LET t == x.val IN
         IF /\ Len(t) = 10
            /\ t[3] = "." /\ t[6] = "."
            /\ AllDigits(SubSeq(t, 1, 2)) /\ AllDigits(SubSeq(t, 4, 5)) /\ AllDigits(SubSeq(t, 7, 10))
            /\ IntVal(SubSeq(t, 4, 5)) \in 1..12
            /\ IntVal(SubSeq(t, 1, 2)) \in
                   1..DaysInMonth(IntVal(SubSeq(t, 7, 10)), IntVal(SubSeq(t, 4, 5)))
         THEN Some([year |-> IntVal(SubSeq(t, 7, 10)),
                    month |-> IntVal(SubSeq(t, 4, 5)),
                    day |-> IntVal(SubSeq(t, 1, 2))])
         ELSE NA

LowerCase == <<"a", "b", "c", "d", "e", "f", "g", "h", "i", "j", "k", "l", "m",
               "n", "o", "p", "q", "r", "s", "t", "u", "v", "w", "x", "y", "z">>
UpperCase == <<"A", "B", "C", "D", "E", "F", "G", "H", "I", "J", "K", "L", "M",
               "N", "O", "P", "Q", "R", "S", "T", "U", "V", "W", "X", "Y", "Z">>

\* str.upper()
Upper(x) ==
    [i \in 1..Len(x) |->
        IF \E j \in 1..26 : LowerCase[j] = x[i]
        THEN UpperCase[CHOOSE j \in 1..26 : LowerCase[j] = x[i]]
        ELSE x[i]]

--------------------------------------------------------------------------
(* tidy *)

\* the characters .str.replace(r"[^\d\.\,\-]", "", regex=True) keeps
KeptInNumber(c) == IsDigit(c) \/ c \in {".", ",", "-"}

SanitizeNumber(x) == SelectSeq(x, KeptInNumber)

\* df["best_price_30"] of one row
best_price_30_value(cell) ==
    to_numeric_coerce(IF cell.isna THEN NA ELSE Some(SanitizeNumber(cell.val)))

RemoveMPC(x) == RemovePrefix(x, <<"M", "P", "C">>)

\* df["anchor_date"] of one row
anchor_date_value(date_to_parse) ==
    to_datetime_dayfirst(IF date_to_parse.isna THEN NA
                         ELSE Some(Strip(RemoveMPC(date_to_parse.val))))

\* df["anchor_price"] of one row: Returned(cell), or Raised when pd.to_numeric
\* (called without errors="coerce") cannot parse the text
anchor_price_value(price_to_parse) ==
    to_numeric(replace_with_dot_if_number(strip_currency(price_to_parse)))

\* A faulty variant: the flag is converted without .fillna("0").
is_akcija_value_nofill(cell) ==
    to_numeric(IF cell = Some(<<"A">>) THEN Some(<<"1">>) ELSE cell)

\* is_akcija of one row: .replace("A", "1") replaces the cells that are "A",
\* .fillna("0") the missing ones, pd.to_numeric converts or raises
is_akcija_value(cell) ==
    LET replaced == IF cell = Some(<<"A">>) THEN Some(<<"1">>) ELSE cell
        filled == IF replaced.isna THEN Some(<<"0">>) ELSE replaced
    IN to_numeric(filled)

\* one row of the table tidy returns, given that its conversions succeed
tidy_row(row) ==
    LET pa == prepare_anchor(row.anchor_price_date)
        anchor_price == anchor_price_value(pa.price).val
    IN [product_name |-> Upper(row.product_name),
        quantity |-> row.quantity,
        kol_jed_mj |-> row.kol_jed_mj,
        price |-> row.price,
        best_price_30 |-> best_price_30_value(row.best_price_30),
        anchor_date |-> anchor_date_value(pa.date),
        anchor_price |-> anchor_price,
        price_anchor_diff |-> FloatDiv(FloatSub(row.price, anchor_price), anchor_price),
        is_akcija |-> is_akcija_value(row.is_akcija).val]

\* the rows whose conversion makes a column-wide pd.to_numeric raise
tidy_raises(table) ==
    \E i \in 1..Len(table) :
        \/ ~anchor_price_value(prepare_anchor(table[i].anchor_price_date).price).ok
        \/ ~is_akcija_value(table[i].is_akcija).ok

\* tidy(df): the table it returns, or the ValueError of pd.to_numeric
tidy(table) ==
    IF tidy_raises(table) THEN Raised([type |-> "ValueError"])
    ELSE Returned([i \in 1..Len(table) |-> tidy_row(table[i])])

\* the warnings prepare_anchor logs while df.anchor_price_date.apply runs
RECURSIVE tidy_warnings(_)
tidy_warnings(table) ==
    IF table = <<>> THEN <<>>
    ELSE LET w == prepare_anchor(table[1].anchor_price_date).warning IN
         (IF w = <<>> THEN <<>> ELSE <<w>>) \o tidy_warnings(Tail(table))

--------------------------------------------------------------------------
(* prepare_anchor and the cleanup on their own: every short cell text *)

MaxLen == 5

AnchorChars == {"=", " ", EuroSign, "u", "r", ","}

\* the texts of at most n characters
AnchorTexts(n) == UNION { [1..k -> AnchorChars] : k \in 0..n }

InitAnchor ==
    /\ pc = "cell"
    /\ s \in {NA} \cup { Some(x) : x \in AnchorTexts(MaxLen) }
    /\ split = None
    /\ stripped = None
    /\ cleaned = None
    /\ warnings = <<>>
    /\ FilenameIdle
    /\ TidyIdle
    /\ MainIdle

PrepareAnchor ==
    /\ pc = "cell"
    /\ LET r == prepare_anchor(s) IN
         /\ split' = [date |-> r.date, price |-> r.price]
         /\ warnings' = IF r.warning = <<>> THEN warnings ELSE Append(warnings, r.warning)
    /\ pc' = "split"
    /\ UNCHANGED <<s, stripped, cleaned, filenameVars, tidyVars, mainVars>>

CleanPrice ==
    /\ pc = "split"
    /\ stripped' = strip_currency(split.price)
    /\ cleaned' = replace_with_dot_if_number(strip_currency(split.price))
    /\ pc' = "cleaned"
    /\ UNCHANGED <<s, split, warnings, filenameVars, tidyVars, mainVars>>

NextAnchor == PrepareAnchor \/ CleanPrice

SpecAnchor == InitAnchor /\ [][NextAnchor]_vars

\* C7: a cell with exactly one '=' is returned as (text before the '=', text
\* after it), each without its surrounding whitespace; a cell with no '=' or
\* several, and a missing cell, give (NA, NA) and one warning.
C7_PrepareAnchor ==
    pc = "split" =>
        IF ~s.isna /\ Count(s.val, "=") = 1
        THEN \E i \in 1..Len(s.val) :
                /\ s.val[i] = "="
                /\ split.date = Some(Strip(SubSeq(s.val, 1, i - 1)))
                /\ split.price = Some(Strip(SubSeq(s.val, i + 1, Len(s.val))))
        ELSE /\ split = [date |-> NA, price |-> NA]
             /\ Len(warnings) = 1

\* a cell " ,= E" (E the euro sign) has been split into "," and "E"
C7_Witness ==
    /\ pc = "split"
    /\ s = Some(<<" ", ",", "=", " ", EuroSign>>)
    /\ split = [date |-> Some(<<",">>), price |-> Some(Euro)]

\* C10: the cleanup strips the longest matching trailing marker exactly
\* once: a text ending in the euro sign and "ur" loses exactly those three
\* characters, a text ending in the euro sign loses exactly it, any other
\* text is unchanged.
C10_LongestSuffixOnce ==
    (pc = "cleaned" /\ ~split.price.isna) =>
        LET x == split.price.val IN
        stripped = Some(IF EndsWith(x, EuroUr) THEN SubSeq(x, 1, Len(x) - 3)
                        ELSE IF EndsWith(x, Euro) THEN SubSeq(x, 1, Len(x) - 1)
                        ELSE x)

--------------------------------------------------------------------------
(* tidy on its own: every table of a few rows *)

MaxRows == 2

Txt_scenario == Some(<<"M", "P", "C", " ", "0", "1", ".", "1", "2", ".", "2", "0", "2", "3", "=", "1", "2", ",", "5", "0", " ", EuroSign>>)
Txt_zero == Some(<<"M", "P", "C", " ", "0", "1", ".", "1", "2", ".", "2", "0", "2", "3", "=", "0", ",", "0", "0", " ", EuroSign>>)
Txt_eur == Some(<<"0", "1", ".", "1", "2", ".", "2", "0", "2", "3", "=", "2", ",", "0", "0", EuroSign, "u", "r">>)
Txt_baddate == Some(<<"M", "P", "C", " ", "n", "/", "a", "=", "1", ",", "0", "0">>)
Txt_badprice == Some(<<"M", "P", "C", " ", "0", "1", ".", "1", "2", ".", "2", "0", "2", "3", "=", "n", "/", "a">>)
Txt_noeq == Some(<<"M", "P", "C", " ", "0", "1", ".", "1", "2", ".", "2", "0", "2", "3">>)
Txt_twoeq == Some(<<"M", "P", "C", " ", "0", "1", ".", "1", "2", ".", "2", "0", "2", "3", "=", "1", ",", "0", "0", "=", "2", ",", "0", "0">>)
Txt_emptyprice == Some(<<"M", "P", "C", " ", "0", "1", ".", "1", "2", ".", "2", "0", "2", "3", "=", EuroSign>>)

AnchorCells ==
    {NA, Txt_scenario, Txt_zero, Txt_eur, Txt_baddate, Txt_badprice, Txt_noeq,
     Txt_twoeq, Txt_emptyprice}

PriceCells == {NA, Some(Num(0, 1)), Some(Num(10, 1))}

FlagCells == {NA, Some(<<"A">>), Some(<<"N">>)}

BestPriceCells == {NA, Some(<<"1", ".", "9", "9">>), Some(<<"1", ",", "9", "9", " ", EuroSign>>)}

Row(a, p, f, b) ==
    [product_name |-> <<"T", "o", "f", "u">>,
     quantity |-> Some(Num(1, 4)),
     kol_jed_mj |-> Some(Num(1, 1)),
     price |-> p,
     best_price_30 |-> b,
     anchor_price_date |-> a,
     is_akcija |-> f]

\* every anchor cell with every price, and every flag with every best price
Rows ==
    { Row(a, p, NA, NA) : a \in AnchorCells, p \in PriceCells }
    \cup { Row(Txt_scenario, Some(Num(10, 1)), f, b) : f \in FlagCells, b \in BestPriceCells }

\* the tables of at most n rows
Tables(n) == UNION { [1..k -> Rows] : k \in 1..n }

InitTidy ==
    /\ pc = "table"
    /\ df_in \in Tables(MaxRows)
    /\ df = None
    /\ warnings = <<>>
    /\ FilenameIdle
    /\ AnchorIdle
    /\ MainIdle

Tidy ==
    /\ pc = "table"
    /\ df' = tidy(df_in)
    /\ warnings' = warnings \o tidy_warnings(df_in)
    /\ pc' = "tidied"
    /\ UNCHANGED <<df_in, filenameVars, anchorVars, mainVars>>

NextTidy == Tidy

SpecTidy == InitTidy /\ [][NextTidy]_vars

IsZero(cell) == ~cell.isna /\ cell.val.kind = "finite" /\ cell.val.n = 0

\* C4: price_anchor_diff is null in every row whose anchor_price is null or
\* exactly zero, and is (price - anchor_price)/anchor_price in every other row.
C4_DiffNullOrRatio ==
    (pc = "tidied" /\ df.ok) =>
        \A i \in 1..Len(df.val) :
            LET r == df.val[i] IN
            IF r.anchor_price.isna \/ IsZero(r.anchor_price)
            THEN r.price_anchor_diff = NA
            ELSE \/ r.price.isna /\ r.price_anchor_diff = NA
                 \/ /\ ~r.price.isna
                    /\ ~r.price_anchor_diff.isna
                    /\ r.price_anchor_diff.val.kind = "finite"
                    /\ r.price_anchor_diff.val.n * r.anchor_price.val.n * r.price.val.d
                       = r.price_anchor_diff.val.d
                         * (r.price.val.n * r.anchor_price.val.d
                            - r.anchor_price.val.n * r.price.val.d)

FlagsConvert(table) == \A i \in 1..Len(table) : table[i].is_akcija \in {NA, Some(<<"A">>)}

\* C8: tidy never aborts because of one row's malformed anchor_price_date,
\* best_price_30, anchor date text or anchor price text: it returns one row
\* per input row, and the anchor price of a row whose text does not parse
\* is null.
C8_RowLocalFailures ==
    (pc = "tidied" /\ FlagsConvert(df_in)) =>
        /\ df.ok
        /\ Len(df.val) = Len(df_in)

\* C9: in the tidied table is_akcija is 1 in every row whose flag is "A"
\* and 0 in every row whose flag is blank (missing).
C9_IsAkcija ==
    (pc = "tidied" /\ df.ok) =>
        /\ Len(df.val) = Len(df_in)
        /\ \A i \in 1..Len(df_in) :
              /\ df_in[i].is_akcija = Some(<<"A">>) => df.val[i].is_akcija = Some(Num(1, 1))
              /\ df_in[i].is_akcija = NA => df.val[i].is_akcija = Some(Num(0, 1))

\* a table with a promoted row and a blank-flag row has been tidied
C9_Witness ==
    /\ pc = "tidied"
    /\ df.ok
    /\ Len(df_in) = 2
    /\ df_in[1].is_akcija = Some(<<"A">>)
    /\ df_in[2].is_akcija = NA
    /\ df.val[1].is_akcija = Some(Num(1, 1))
    /\ df.val[2].is_akcija = Some(Num(0, 1))

--------------------------------------------------------------------------
(* The file-name parser on its own: every label built from a few tokens *)

MaxTokens == 7

\* a plain token, a two-word city name and the empty token (which makes a
\* run of underscores, or an underscore at either end)
NameTokens == { <<"7">>, Dugo_Selo, <<>> }

NameEndings == { <<>>, DotCsv, <<" ">> \o DotCsv, DotCsv \o <<" ">> }

\* the labels of at most n tokens
Labels(n) ==
    { Join(t, <<"_">>) \o e : t \in UNION { [1..k -> NameTokens] : k \in 1..n },
                              e \in NameEndings }

InitFilename ==
    /\ pc = "name"
    /\ label \in Labels(MaxTokens)
    /\ parts = <<>>
    /\ meta = None
    /\ AnchorIdle
    /\ TidyIdle
    /\ MainIdle
    /\ warnings = <<>>

NormalizeFilename ==
    /\ pc = "name"
    /\ parts' = normalize_filename_txt_kf(label)
    /\ pc' = "tokens"
    /\ UNCHANGED <<label, meta, anchorVars, warnings, tidyVars, mainVars>>

StructureMatch ==
    /\ pc = "tokens"
    /\ meta' = filename_structure_match_kf(parts)
    /\ pc' = "matched"
    /\ UNCHANGED <<label, parts, anchorVars, warnings, tidyVars, mainVars>>

NextFilename == NormalizeFilename \/ StructureMatch

SpecFilename == InitFilename /\ [][NextFilename]_vars

\* C5: a token list of the shape [size, address tokens..., city, store_id,
\* date, time] (five or more tokens) yields a record whose store_size is the
\* first token, whose city, store_id, date and time are the last four tokens
\* in that order and whose address is the tokens in between joined by single
\* spaces, so that store_size, the address tokens, city, store_id, date and
\* time in order give back the normalized token list.
C5_FilenameRecord ==
    (pc = "matched" /\ Len(parts) >= 5) =>
        /\ meta.ok
        /\ \E mid \in {SubSeq(parts, 2, Len(parts) - 4)} :
              /\ meta.val.address = Join(mid, <<" ">>)
              /\ <<meta.val.store_size>> \o mid
                   \o <<meta.val.city, meta.val.store_id, meta.val.date, meta.val.time>>
                 = parts
        /\ parts = normalize_filename_txt_kf(label)

\* a label of seven tokens with the city Dugo_Selo has been parsed: its two
\* middle tokens are the address, joined by one space
C5_Witness ==
    /\ pc = "matched"
    /\ Len(parts) = 7
    /\ meta.ok
    /\ meta.val.store_size = <<"7">>
    /\ meta.val.address = <<"7", " ">> \o Spaced(Dugo_Selo)
    /\ meta.val.city = Spaced(Dugo_Selo)

--------------------------------------------------------------------------
(* HTTP, find_assetlist_url_static and fetch_stores_dates *)

\* requests' raise_for_status and urllib's urlopen raise for the 4xx and 5xx
StatusOk(status) == status < 400

AssetListPrefix == <<"a", "s", "s", "e", "t", "L", "i", "s", "t", "_">>
DotJson == <<".", "j", "s", "o", "n">>

\* the length of the run of digits x starts with, given its first non-digit at k
RunBefore(x, k) == IF k = 0 THEN Len(x) ELSE k - 1

DigitRun(x) == RunBefore(x, Min0({ i \in 1..Len(x) : ~IsDigit(x[i]) }))

\* whether r'["\']?assetList_(\d+)\.json["\']?' matches x at its start; the
\* optional quotes match the empty text when there is no quote
DigitsThenJson(rest, n) == n >= 1 /\ StartsWith(Drop(rest, n), DotJson)

MatchesHere(x) ==
    /\ StartsWith(x, AssetListPrefix)
    /\ DigitsThenJson(Drop(x, Len(AssetListPrefix)), DigitRun(Drop(x, Len(AssetListPrefix))))

\* re.search(...): group(1) of the leftmost match, None when there is none
GroupAt(x, k) ==
    IF k = 0 THEN None
    ELSE Some(SubSeq(x, k + Len(AssetListPrefix),
                     k + Len(AssetListPrefix) - 1 + DigitRun(Drop(x, k - 1 + Len(AssetListPrefix)))))

search_assetlist(x) == GroupAt(x, Min0({ i \in 1..Len(x) : MatchesHere(Drop(x, i - 1)) }))

\* find_assetlist_url_static on a response: the digits, None (after the
\* print of "File pattern not found") or the HTTPError of raise_for_status
find_assetlist_url_static(response) ==
    IF ~StatusOk(response.status) THEN Raised([type |-> "HTTPError"])
    ELSE Returned(search_assetlist(response.text))

\* str(dynamic_number) inside the f-string of the manifest URL
NumberText(number) == IF number = None THEN <<"N", "o", "n", "e">> ELSE number.val

ManifestUrl(number) ==
    <<"h", "t", "t", "p", "s", ":", "/", "/", "w", "w", "w", ".", "k", "a", "u", "f", "l", "a", "n", "d", ".", "h", "r", "/", "a", "k", "c", "i", "j", "e", "-", "n", "o", "v", "o", "s", "t", "i", "/", "p", "o", "p", "i", "s", "-", "m", "p", "c", ".", "a", "s", "s", "e", "t", "S", "e", "a", "r", "c", "h", ".", "i", "d", "=", "a", "s", "s", "e", "t", "L", "i", "s", "t", "_">>
    \o NumberText(number) \o DotJson

KauflandHost == <<"h", "t", "t", "p", "s", ":", "/", "/", "w", "w", "w", ".", "k", "a", "u", "f", "l", "a", "n", "d", ".", "h", "r">>

\* pd.to_datetime(token, format="%d%m%Y") for the tokens of the labels below:
\* eight digits that are a date, or a token with a letter, which raises
ParseDDMMYYYY(tok) ==
    IF /\ Len(tok) = 8
       /\ AllDigits(tok)
       /\ IntVal(SubSeq(tok, 3, 4)) \in 1..12
       /\ IntVal(SubSeq(tok, 1, 2)) \in
              1..DaysInMonth(IntVal(SubSeq(tok, 5, 8)), IntVal(SubSeq(tok, 3, 4)))
    THEN Returned([year |-> IntVal(SubSeq(tok, 5, 8)),
                   month |-> IntVal(SubSeq(tok, 3, 4)),
                   day |-> IntVal(SubSeq(tok, 1, 2))])
    ELSE Raised([type |-> "ValueError"])

\* pd.to_numeric(token).astype("Int16")
AsInt16(r) ==
    IF ~r.ok THEN Raised([type |-> "ValueError"])
    ELSE IF r.val.d # 1 \/ r.val.n \notin -32768..32767 THEN Raised([type |-> "TypeError"])
    ELSE Returned(r.val.n)

ParseStoreId(tok) == AsInt16(ParseNumber(tok))

\* [normalize_filename_txt_kf(name) for name in filenames]
RECURSIVE NormalizeAll(_)
NormalizeAll(items) ==
    IF items = <<>> THEN <<>>
    ELSE <<normalize_filename_txt_kf(Head(items).label)>> \o NormalizeAll(Tail(items))

\* a call result with v put in front of the list the rest returned
Prepend(v, rest) == IF rest.ok THEN Returned(<<v>> \o rest.val) ELSE rest

\* [filename_structure_match_kf(nf) for nf in normalized_filenames]: the
\* list of records, or the exception of the first list that does not match
RECURSIVE MatchAll(_)
MatchAll(normalized) ==
    IF normalized = <<>> THEN Returned(<<>>)
    ELSE IF ~filename_structure_match_kf(Head(normalized)).ok
    THEN filename_structure_match_kf(Head(normalized))
    ELSE Prepend(filename_structure_match_kf(Head(normalized)).val, MatchAll(Tail(normalized)))

\* one row of df_url
ManifestEntry(item, m) ==
    [store_size |-> m.store_size,
     address |-> m.address,
     city |-> m.city,
     store_id |-> ParseStoreId(m.store_id).val,
     date |-> ParseDDMMYYYY(m.date).val,
     time |-> m.time,
     url |-> KauflandHost \o item.path]

\* the index of the first record whose store_id does not convert
FirstBadStoreId(metadata) ==
    Min0({ i \in 1..Len(metadata) : ~ParseStoreId(metadata[i].store_id).ok })

\* metadata.assign(url=..., date=..., store_id=...): metadata["date"] is a
\* KeyError on the frame of an empty list, the date column is converted
\* before the store_id column, and either conversion raises at a token it
\* cannot convert
Assign(items, metadata) ==
    IF metadata = <<>> THEN Raised([type |-> "KeyError"])
    ELSE IF \E i \in 1..Len(metadata) : ~ParseDDMMYYYY(metadata[i].date).ok
    THEN Raised([type |-> "ValueError"])
    ELSE IF FirstBadStoreId(metadata) # 0
    THEN Raised(ParseStoreId(metadata[FirstBadStoreId(metadata)].store_id).exc)
    ELSE Returned([i \in 1..Len(items) |-> ManifestEntry(items[i], metadata[i])])

AssignIfMatched(items, matched) ==
    IF matched.ok THEN Assign(items, matched.val) ELSE matched

\* the steps of fetch_stores_dates after response.json(), each list
\* computed before the next statement uses it
FromItems(items) ==
    CHOOSE r \in { AssignIfMatched(items, matched) :
                     matched \in { MatchAll(normalized) :
                                     normalized \in {NormalizeAll(items)} } } : TRUE

\* the items whose label fits the structure
RECURSIVE WellFormedOnly(_)
WellFormedOnly(items) ==
    IF items = <<>> THEN <<>>
    ELSE (IF filename_structure_match_kf(normalize_filename_txt_kf(Head(items).label)).ok
          THEN <<Head(items)>> ELSE <<>>) \o WellFormedOnly(Tail(items))

\* A faulty variant: a label that does not fit the structure is left out of the table.
fetch_stores_dates_skipping(response) ==
    IF response.body.kind = "text" THEN Raised([type |-> "JSONDecodeError"])
    ELSE IF response.body.kind = "object" THEN Raised([type |-> "TypeError"])
    ELSE CHOOSE r \in { FromItems(items) : items \in {WellFormedOnly(response.body.items)} } : TRUE

\* fetch_stores_dates on a response. The status is not looked at:
\* response.json() raises when the body is not JSON, item["label"] when the
\* JSON is not a list of objects, filename_structure_match_kf at the first
\* label of fewer than five tokens, metadata["date"] when the list is empty,
\* and the conversions of date and store_id at a token they cannot convert.
fetch_stores_dates(response) ==
    IF response.body.kind = "text" THEN Raised([type |-> "JSONDecodeError"])
    ELSE IF response.body.kind = "object" THEN Raised([type |-> "TypeError"])
    ELSE FromItems(response.body.items)

--------------------------------------------------------------------------
(* read_csv_kf *)

\* whether the bytes are well-formed UTF-8
RECURSIVE Utf8Valid(_)
Utf8Valid(b) ==
    IF b = <<>> THEN TRUE
    ELSE LET c == Head(b)
             Cont(i, lo, hi) == Len(b) >= i /\ b[i] \in lo..hi
         IN IF c < 128 THEN Utf8Valid(Tail(b))
            ELSE IF c \in 194..223 THEN Cont(2, 128, 191) /\ Utf8Valid(Drop(b, 2))
            ELSE IF c = 224 THEN Cont(2, 160, 191) /\ Cont(3, 128, 191) /\ Utf8Valid(Drop(b, 3))
            ELSE IF c \in (225..236) \cup {238, 239}
            THEN Cont(2, 128, 191) /\ Cont(3, 128, 191) /\ Utf8Valid(Drop(b, 3))
            ELSE IF c = 237 THEN Cont(2, 128, 159) /\ Cont(3, 128, 191) /\ Utf8Valid(Drop(b, 3))
            ELSE IF c = 240
            THEN Cont(2, 144, 191) /\ Cont(3, 128, 191) /\ Cont(4, 128, 191) /\ Utf8Valid(Drop(b, 4))
            ELSE IF c \in 241..243
            THEN Cont(2, 128, 191) /\ Cont(3, 128, 191) /\ Cont(4, 128, 191) /\ Utf8Valid(Drop(b, 4))
            ELSE IF c = 244
            THEN Cont(2, 128, 143) /\ Cont(3, 128, 191) /\ Cont(4, 128, 191) /\ Utf8Valid(Drop(b, 4))
            ELSE FALSE

\* the bytes windows-1250 leaves undefined: 0x81, 0x83, 0x88, 0x90, 0x98
Cp1250Valid(b) == \A i \in 1..Len(b) : b[i] \notin {129, 131, 136, 144, 152}

Decodes(b, encoding) == IF encoding = "utf-8" THEN Utf8Valid(b) ELSE Cp1250Valid(b)

\* pd.read_csv(url, encoding=...) on the response to its GET: the table, or
\* the exception of the GET, of the decoding or of the parser
read_csv(response, encoding) ==
    IF ~StatusOk(response.status) THEN Raised([type |-> "HTTPError"])
    ELSE IF ~Decodes(response.bytes, encoding) THEN Raised([type |-> "UnicodeDecodeError"])
    ELSE IF response.bytes = <<>> THEN Raised([type |-> "EmptyDataError"])
    ELSE Returned(response.table)

\* A faulty variant: the fallback is taken on any exception, as `except Exception` would.
FallsBack_any(exc) == TRUE

\* `except UnicodeDecodeError:` of the first attempt
FallsBack(exc) == exc.type = "UnicodeDecodeError"

--------------------------------------------------------------------------
(* The run of __main__ *)

MaxBodyPieces == 3
MaxEntries == 2

\* the store KF_ZD
KF_ZD_id == 2030

Statuses == {200, 404, 503}

BodyPieces == { AssetListPrefix, <<"4", "2">>, DotJson, <<"\"">> }

\* the page bodies of at most n pieces
PageBodies(n) == { Concat(b) : b \in UNION { [1..k -> BodyPieces] : k \in 0..n } }

Lbl_today == <<"H", "i", "p", "e", "r", "_", "I", "l", "i", "c", "a", "_", "1", "2", "3", "_", "Z", "a", "g", "r", "e", "b", "_", "2", "0", "3", "0", "_", "0", "1", "0", "1", "2", "0", "2", "4", "_", "1", "2", "0", "0", ".", "c", "s", "v">>
Lbl_other == <<"S", "u", "p", "e", "r", "_", "D", "u", "g", "o", "_", "S", "e", "l", "o", "_", "2", "0", "4", "0", "_", "0", "2", "0", "1", "2", "0", "2", "4", "_", "0", "7", "0", "0", ".", "c", "s", "v">>
Lbl_short == <<"H", "i", "p", "e", "r", "_", "Z", "a", "g", "r", "e", "b", "_", "2", "0", "3", "0", "_", "0", "1", "0", "1", "2", "0", "2", "4", ".", "c", "s", "v">>
Lbl_baddate == <<"H", "i", "p", "e", "r", "_", "I", "l", "i", "c", "a", "_", "Z", "a", "g", "r", "e", "b", "_", "2", "0", "3", "0", "_", "0", "1", "0", "1", "2", "0", "2", "x", "_", "1", "2", "0", "0", ".", "c", "s", "v">>
Lbl_badid == <<"H", "i", "p", "e", "r", "_", "I", "l", "i", "c", "a", "_", "Z", "a", "g", "r", "e", "b", "_", "2", "o", "3", "0", "_", "0", "1", "0", "1", "2", "0", "2", "4", "_", "1", "2", "0", "0", ".", "c", "s", "v">>

ManifestItems ==
    { [label |-> Lbl_today, path |-> <<"/", "a">>],
      [label |-> Lbl_other, path |-> <<"/", "b">>],
      [label |-> Lbl_short, path |-> <<"/", "c">>],
      [label |-> Lbl_baddate, path |-> <<"/", "d">>],
      [label |-> Lbl_badid, path |-> <<"/", "e">>] }

\* a body that is not JSON, a JSON object, and the lists of at most n items
ManifestBodies(n) ==
    { [kind |-> "text"], [kind |-> "object"] }
    \cup { [kind |-> "list", items |-> l] :
             l \in UNION { [1..k -> ManifestItems] : k \in 0..n } }

Days == { [year |-> 2024, month |-> 1, day |-> 1], [year |-> 2024, month |-> 1, day |-> 3] }

\* "A"; the UTF-8 bytes of z-caron; its windows-1250 byte; a byte neither
\* encoding decodes; an empty payload
CsvBytes == { <<65>>, <<197, 190>>, <<158>>, <<129>>, <<>> }

\* The tables the store's file parses to, written with the column names
\* that df_in.rename(columns=PRICE_MAP | FIELD_MAP) gives them.
CsvTables ==
    { <<Row(Txt_scenario, Some(Num(10, 1)), Some(<<"A">>), NA)>>,
      <<Row(Txt_zero, Some(Num(10, 1)), NA, NA)>>,
      <<Row(Txt_scenario, Some(Num(10, 1)), NA, NA), Row(Txt_badprice, NA, NA, NA)>> }

CsvResponses == [status : Statuses, bytes : CsvBytes, table : CsvTables]

Abort(exc, where) ==
    /\ pc' = "aborted"
    /\ error' = [type |-> exc.type, at |-> where]

InitMain ==
    /\ pc = "locate"
    /\ TODAY \in Days
    /\ gets = <<>>
    /\ dynamic_number = Unset
    /\ csv_links = Unset
    /\ df_url = Unset
    /\ url_filtered = Unset
    /\ csv_log = <<>>
    /\ csv_ret = Unset
    /\ error = None
    /\ output_written = FALSE
    /\ warnings = <<>>
    /\ FilenameIdle
    /\ AnchorIdle
    /\ TidyIdle

\* dynamic_number = find_assetlist_url_static(BASE_URL)
Locate ==
    /\ pc = "locate"
    /\ \E status \in Statuses, body \in PageBodies(MaxBodyPieces) :
          LET r == find_assetlist_url_static([status |-> status, text |-> body]) IN
          /\ gets' = Append(gets, [call |-> "page", status |-> status])
          /\ IF r.ok
             THEN /\ dynamic_number' = r.val
                  /\ pc' = "manifest"
                  /\ UNCHANGED error
             ELSE /\ Abort(r.exc, "find_assetlist_url_static")
                  /\ UNCHANGED dynamic_number
    /\ UNCHANGED <<TODAY, csv_links, df_url, url_filtered, csv_log, csv_ret, output_written,
                   warnings, filenameVars, anchorVars, tidyVars>>

\* df_url = fetch_stores_dates()
FetchManifest ==
    /\ pc = "manifest"
    /\ \E status \in Statuses, body \in ManifestBodies(MaxEntries) :
          LET r == fetch_stores_dates([status |-> status, body |-> body]) IN
          /\ gets' = Append(gets, [call |-> "manifest", status |-> status,
                                   url |-> ManifestUrl(dynamic_number)])
          /\ csv_links' = body
          /\ IF r.ok
             THEN /\ df_url' = r.val
                  /\ pc' = "select"
                  /\ UNCHANGED error
             ELSE /\ pc' = "aborted"
                  /\ error' = r.exc @@ [at |-> "fetch_stores_dates"]
                  /\ UNCHANGED df_url
    /\ UNCHANGED <<TODAY, dynamic_number, url_filtered, csv_log, csv_ret,
                   output_written, warnings, filenameVars, anchorVars, tidyVars>>

\* df_url[(df_url["date"] == TODAY) & (df_url["store_id"] == KF_ZD.id)].url.squeeze():
\* the URL when one row is selected, otherwise a Series
Squeezed(table, day) ==
    LET hits == { i \in 1..Len(table) : table[i].date = day /\ table[i].store_id = KF_ZD_id } IN
    IF Cardinality(hits) = 1
    THEN [kind |-> "str", url |-> table[CHOOSE i \in hits : TRUE].url]
    ELSE [kind |-> "Series", size |-> Cardinality(hits)]

Select ==
    /\ pc = "select"
    /\ url_filtered' = Squeezed(df_url, TODAY)
    /\ pc' = "read_utf8"
    /\ UNCHANGED <<TODAY, gets, dynamic_number, csv_links, df_url, csv_log,
                   csv_ret, error, output_written, warnings, filenameVars, anchorVars, tidyVars>>

\* read_csv_kf, the first attempt: pd.read_csv refuses what is not a path
\* (a Series) with a ValueError before any GET
ReadCsvUtf8 ==
    /\ pc = "read_utf8"
    /\ IF url_filtered.kind # "str"
       THEN /\ csv_log' = Append(csv_log, [encoding |-> "utf-8",
                                             result |-> Raised([type |-> "ValueError"])])
            /\ csv_ret' = Raised([type |-> "ValueError"])
            /\ Abort([type |-> "ValueError"], "read_csv_kf")
            /\ UNCHANGED gets
       ELSE \E response \in CsvResponses :
              LET r == read_csv(response, "utf-8") IN
              /\ gets' = Append(gets, [call |-> "csv", status |-> response.status])
              /\ csv_log' = Append(csv_log, [encoding |-> "utf-8", result |-> r])
              /\ IF r.ok
                 THEN /\ csv_ret' = Returned(Some(r.val))
                      /\ pc' = "rename"
                      /\ UNCHANGED error
                 ELSE IF FallsBack(r.exc)
                 THEN /\ pc' = "read_win1250"
                      /\ UNCHANGED <<csv_ret, error>>
                 ELSE /\ csv_ret' = r
                      /\ Abort(r.exc, "read_csv_kf")
    /\ UNCHANGED <<TODAY, dynamic_number, csv_links, df_url, url_filtered,
                   output_written, warnings, filenameVars, anchorVars, tidyVars>>

\* read_csv_kf, the second attempt, inside `except UnicodeDecodeError`: any
\* exception is printed and None is returned
ReadCsvWin1250 ==
    /\ pc = "read_win1250"
    /\ \E response \in CsvResponses :
          LET r == read_csv(response, "windows-1250") IN
          /\ gets' = Append(gets, [call |-> "csv", status |-> response.status])
          /\ csv_log' = Append(csv_log, [encoding |-> "windows-1250", result |-> r])
          /\ csv_ret' = IF r.ok THEN Returned(Some(r.val)) ELSE Returned(None)
    /\ pc' = "rename"
    /\ UNCHANGED <<TODAY, dynamic_number, csv_links, df_url, url_filtered,
                   error, output_written, warnings, filenameVars, anchorVars, tidyVars>>

\* df_in = df_in.rename(columns=PRICE_MAP | FIELD_MAP): None has no rename
Rename ==
    /\ pc = "rename"
    /\ IF csv_ret.val = None
       THEN /\ Abort([type |-> "AttributeError"], "__main__")
            /\ UNCHANGED df_in
       ELSE /\ df_in' = csv_ret.val.val
            /\ pc' = "tidy"
            /\ UNCHANGED error
    /\ UNCHANGED <<df, warnings, filenameVars, anchorVars, mainVars_but_error>>

\* df = tidy(df_in)
TidyMain ==
    /\ pc = "tidy"
    /\ \E r \in {tidy(df_in)} :
          /\ df' = r
          /\ IF r.ok
             THEN pc' = "render" /\ UNCHANGED error
             ELSE Abort(r.exc, "tidy")
    /\ warnings' = warnings \o tidy_warnings(df_in)
    /\ UNCHANGED <<df_in, filenameVars, anchorVars, mainVars_but_error>>

\* The filters, the sort and the styling, then styled.to_html(Path("output",
\* "index.html")), which raises when the directory output does not exist.
Render ==
    /\ pc = "render"
    /\ \E output_dir_exists \in BOOLEAN :
          IF output_dir_exists
          THEN /\ output_written' = TRUE
               /\ pc' = "done"
               /\ UNCHANGED error
          ELSE /\ Abort([type |-> "FileNotFoundError"], "__main__")
               /\ UNCHANGED output_written
    /\ UNCHANGED <<TODAY, gets, dynamic_number, csv_links, df_url, url_filtered,
                   csv_log, csv_ret, warnings, filenameVars, anchorVars, tidyVars>>

NextMain ==
    \/ Locate
    \/ FetchManifest
    \/ Select
    \/ ReadCsvUtf8
    \/ ReadCsvWin1250
    \/ Rename
    \/ TidyMain
    \/ Render

SpecMain == InitMain /\ [][NextMain]_vars

\* C1: a GET that returns a non-success status (the page, the manifest or the
\* store's CSV) is the last step of the run: the run is aborted right after
\* it, no later GET is made and output/index.html is not written.
C1_NonSuccessAborts ==
    \A i \in 1..Len(gets) :
        ~StatusOk(gets[i].status) =>
            /\ i = Len(gets)
            /\ pc = "aborted"
            /\ ~output_written

\* C2: find_assetlist_url_static never returns normally without a digit
\* string, and no manifest GET is made with the number undefined.
C2_NotFoundReported ==
    /\ dynamic_number # None
    /\ \A i \in 1..Len(gets) : gets[i].call = "manifest" => gets[i].url # ManifestUrl(None)

\* C3: read_csv_kf makes at most two attempts, UTF-8 first and windows-1250
\* second; the second is made only after the first raised a
\* UnicodeDecodeError; a first attempt that succeeds returns its table with
\* no second attempt; when both attempts fail the call returns None.
C3_ReadCsvAttempts ==
    /\ Len(csv_log) <= 2
    /\ Len(csv_log) >= 1 =>
          /\ csv_log[1].encoding = "utf-8"
          /\ csv_log[1].result.ok =>
                Len(csv_log) = 1 /\ csv_ret = Returned(Some(csv_log[1].result.val))
    /\ Len(csv_log) = 2 =>
          /\ csv_log[2].encoding = "windows-1250"
          /\ ~csv_log[1].result.ok
          /\ csv_log[1].result.exc.type = "UnicodeDecodeError"
          /\ csv_log[2].result.ok => csv_ret = Returned(Some(csv_log[2].result.val))
          /\ ~csv_log[2].result.ok => csv_ret = Returned(None)

\* both attempts have been made and have failed, and None has been returned
C3_Witness ==
    /\ Len(csv_log) = 2
    /\ ~csv_log[1].result.ok
    /\ ~csv_log[2].result.ok
    /\ csv_ret = Returned(None)

\* the tokens of the i-th label of the manifest
PartsOf(i) == normalize_filename_txt_kf(csv_links.items[i].label)

\* C6: when a label of the manifest has fewer than five tokens, the fetch is
\* aborted by the ValueError of filename_structure_match_kf, which carries
\* the token list of the first such label, and no table is returned.
C6_MalformedLabelAborts ==
    (/\ csv_links # Unset
     /\ csv_links.kind = "list"
     /\ \E i \in 1..Len(csv_links.items) : Len(PartsOf(i)) < 5)
    => /\ df_url = Unset
       /\ pc = "aborted"
       /\ error.at = "fetch_stores_dates"
       /\ error.type = "ValueError"
       /\ \E i \in 1..Len(csv_links.items) :
             /\ Len(PartsOf(i)) < 5
             /\ \A j \in 1..(i - 1) : Len(PartsOf(j)) >= 5
             /\ error.parts = PartsOf(i)

\* a manifest of a well-formed label followed by a four-token label has
\* aborted the fetch with the four tokens in the error
C6_Witness ==
    /\ csv_links # Unset
    /\ csv_links.kind = "list"
    /\ Len(csv_links.items) = 2
    /\ csv_links.items[1].label = Lbl_today
    /\ csv_links.items[2].label = Lbl_short
    /\ pc = "aborted"
    /\ df_url = Unset
    /\ error.parts = <<<<"H", "i", "p", "e", "r">>, <<"Z", "a", "g", "r", "e", "b">>,
                       <<"2", "0", "3", "0">>, <<"0", "1", "0", "1", "2", "0", "2", "4">>>>

====
